---- MODULE Spec2Model ----
(***************************************************************************)
(* Readability analyzer (src/app.py): the zone registry kept in the        *)
(* session state and the text functions applied to every tagged zone.      *)
(*                                                                         *)
(* A text is a sequence of one-character strings.  A grade is an integer   *)
(* number of tenths (8.4 is 84), since every grade the program handles has *)
(* been rounded to one decimal place.                                      *)
(***************************************************************************)
EXTENDS Integers, Sequences, FiniteSets

VARIABLES
    zones,       \* st.session_state.zones: list of {"text", "label"}
    zone_key,    \* st.session_state.zone_key
    TARGETS,     \* the three sidebar sliders, by zone type
    warning,     \* whether the last script run displayed st.warning
    dict,        \* the pronunciation dictionary behind syllapy.count
    last,        \* observer: the user action of the last script run
    prev_zones,  \* observer: the registry before the last script run
    text,        \* the argument of a direct call of a text function
    out          \* the value that call returned

vars == <<zones, zone_key, TARGETS, warning, dict, last, prev_zones, text, out>>

----------------------------------------------------------------------------
(* Characters *)

LowerSeq ==
    <<"a","b","c","d","e","f","g","h","i","j","k","l","m",
      "n","o","p","q","r","s","t","u","v","w","x","y","z">>

UpperSeq ==
    <<"A","B","C","D","E","F","G","H","I","J","K","L","M",
      "N","O","P","Q","R","S","T","U","V","W","X","Y","Z">>

Range(s) == {s[i] : i \in 1..Len(s)}

Lowercase == Range(LowerSeq)

Uppercase == Range(UpperSeq)

Digits == {"0","1","2","3","4","5","6","7","8","9"}

\* what \s matches and str.strip() removes
Whitespace == {" ", "\n", "\t"}

Letters == Lowercase \cup Uppercase

\* [a-zA-Z]
IsAlpha(c) == c \in Letters

\* \w of a str pattern, over the characters of this model
IsWordChar(c) == IsAlpha(c) \/ c \in Digits \/ c = "_"

\* str.lower() on one character
LowerChar(c) ==
    IF c \in Uppercase
    THEN LowerSeq[CHOOSE i \in 1..Len(UpperSeq) : UpperSeq[i] = c]
    ELSE c

lower(s) == [i \in 1..Len(s) |-> LowerChar(s[i])]

\* re.sub(r"[^a-zA-Z]", "", s)
alpha_only(s) == SelectSeq(s, IsAlpha)

RECURSIVE first_kept(_, _)
\* the first index from i on that holds no white space (Len(s) + 1: none)
first_kept(s, i) ==
    IF i <= Len(s) /\ s[i] \in Whitespace THEN first_kept(s, i + 1) ELSE i

RECURSIVE last_kept(_, _)
\* the last index up to j that holds no white space (0: none)
last_kept(s, j) ==
    IF j >= 1 /\ s[j] \in Whitespace THEN last_kept(s, j - 1) ELSE j

\* str.strip()
strip(s) ==
    IF first_kept(s, 1) > Len(s) THEN <<>>
    ELSE SubSeq(s, first_kept(s, 1), last_kept(s, Len(s)))

RECURSIVE Concat(_)
\* "".join(list)
Concat(ss) == IF ss = <<>> THEN <<>> ELSE Head(ss) \o Concat(Tail(ss))

RECURSIVE JoinSpace(_)
\* " ".join(list)
JoinSpace(ss) ==
    IF ss = <<>> THEN <<>>
    ELSE IF Len(ss) = 1 THEN Head(ss)
    ELSE Head(ss) \o <<" ">> \o JoinSpace(Tail(ss))

----------------------------------------------------------------------------
(* count_syllables *)

\* syllapy.count(clean): the dictionary's count, 0 for a word it does not know
syllapy_count(clean) == IF clean \in DOMAIN dict THEN dict[clean] ELSE 0

IsVowel(c) == c \in {"a","e","i","o","u","y"}

\* the vowel-group loop: one per vowel not preceded by a vowel
vowel_groups(clean) ==
    Cardinality({i \in 1..Len(clean) :
                    IsVowel(clean[i]) /\ (i = 1 \/ ~IsVowel(clean[i-1]))})

\* faulty variant: the fallback's count returned without the minimum of 1
count_syllables_unclamped(word) ==
    LET clean == lower(alpha_only(word))
    IN  IF clean = <<>> THEN 0
        ELSE LET n == syllapy_count(clean)
             IN  IF n # 0 THEN n
                 ELSE LET cnt0 == vowel_groups(clean)
                      IN  IF clean[Len(clean)] = "e" /\ cnt0 > 1
                          THEN cnt0 - 1 ELSE cnt0

count_syllables(word) ==
    LET clean == lower(alpha_only(word))
    IN  IF clean = <<>> THEN 0
        ELSE LET n == syllapy_count(clean)
             IN  IF n # 0 THEN n
                 ELSE LET cnt0 == vowel_groups(clean)
                          cnt  == IF clean[Len(clean)] = "e" /\ cnt0 > 1
                                  THEN cnt0 - 1 ELSE cnt0
                      IN  IF cnt >= 1 THEN cnt ELSE 1

----------------------------------------------------------------------------
(* split_into_sentences *)

Terminal == {".", "!", "?"}

\* the lookahead [A-Z"']
SentenceStart == Uppercase \cup {"\"", "'"}

RECURSIVE ws_run_end(_, _)
\* the last index of the whitespace run of s that starts at i
ws_run_end(s, i) ==
    IF i < Len(s) /\ s[i+1] \in Whitespace THEN ws_run_end(s, i + 1) ELSE i

\* faulty variant: a boundary needs two or more white-space characters
boundary_at_wide(s, i) ==
    /\ i > 1
    /\ s[i-1] \in Terminal
    /\ s[i] \in Whitespace
    /\ ws_run_end(s, i) > i
    /\ ws_run_end(s, i) < Len(s)
    /\ s[ws_run_end(s, i) + 1] \in SentenceStart

\* whether (?<=[.!?])\s+(?=[A-Z"']) matches at index i of s
boundary_at(s, i) ==
    /\ i > 1
    /\ s[i-1] \in Terminal
    /\ s[i] \in Whitespace
    /\ ws_run_end(s, i) < Len(s)
    /\ s[ws_run_end(s, i) + 1] \in SentenceStart

RECURSIVE re_split_boundary(_, _, _)
\* re.split of s at the boundaries: from is where the current part starts,
\* i the scan position
re_split_boundary(s, from, i) ==
    IF i > Len(s) THEN <<SubSeq(s, from, Len(s))>>
    ELSE IF boundary_at(s, i)
         THEN <<SubSeq(s, from, i - 1)>>
              \o re_split_boundary(s, ws_run_end(s, i) + 1, ws_run_end(s, i) + 1)
         ELSE re_split_boundary(s, from, i + 1)

NonBlank(p) == strip(p) # <<>>

split_into_sentences(t) ==
    LET parts == re_split_boundary(strip(t), 1, 1)
        kept  == SelectSeq(parts, NonBlank)
    IN  [i \in 1..Len(kept) |-> strip(kept[i])]

----------------------------------------------------------------------------
(* fk_grade *)

RECURSIVE alpha_run_end(_, _)
\* the last index of the run of letters of s that starts at i
alpha_run_end(s, i) ==
    IF i < Len(s) /\ IsAlpha(s[i+1]) THEN alpha_run_end(s, i + 1) ELSE i

RECURSIVE alpha_runs(_, _)
\* the maximal runs of letters of s from index i on, left to right
alpha_runs(s, i) ==
    IF i > Len(s) THEN <<>>
    ELSE IF IsAlpha(s[i])
         THEN <<SubSeq(s, i, alpha_run_end(s, i))>>
              \o alpha_runs(s, alpha_run_end(s, i) + 1)
         ELSE alpha_runs(s, i + 1)

RECURSIVE total_syllables(_)
total_syllables(ws) ==
    IF ws = <<>> THEN 0
    ELSE count_syllables(Head(ws)) + total_syllables(Tail(ws))

\* the outcome of a call: a returned value, or an exception
Returned(v) == [raised |-> FALSE, value |-> v]

Raised == [raised |-> TRUE, value |-> 0]

\* textstat.flesch_kincaid_grade(t), as the exact fraction num/den:
\* 0.39 * (words / sentences) + 11.8 * (syllables / words) - 15.59,
\* a ZeroDivisionError when there is no word or no sentence
textstat_flesch_kincaid_grade(t) ==
    LET S   == Len(split_into_sentences(t))
        ws  == alpha_runs(t, 1)
        W   == Len(ws)
        Syl == total_syllables(ws)
    IN  IF W = 0 \/ S = 0 THEN Raised
        ELSE Returned([num |-> 39 * W * W + 1180 * Syl * S - 1559 * S * W,
                       den |-> 100 * S * W])

\* round(num/den, 1) in tenths, ties to even
round1(x) ==
    LET n == 10 * x.num
        q == n \div x.den
        r == n - q * x.den
    IN  IF 2 * r < x.den THEN q
        ELSE IF 2 * r > x.den THEN q + 1
        ELSE IF q % 2 = 0 THEN q ELSE q + 1

\* max(a, 0.0)
clamp0(a) == IF 0 > a THEN 0 ELSE a

\* faulty variant: the rounded grade returned without the minimum of 0.0
fk_grade_unclamped(t) ==
    LET r == textstat_flesch_kincaid_grade(t)
    IN  IF r.raised THEN Returned(0)
        ELSE Returned(round1(r.value))

fk_grade(t) ==
    LET r == textstat_flesch_kincaid_grade(t)
    IN  IF r.raised THEN Returned(0)
        ELSE Returned(clamp0(round1(r.value)))

----------------------------------------------------------------------------
(* render_zone_html *)

Labels == {"Dialogue", "Math Problem", "Narration"}

ZONE_COLORS ==
    [l \in Labels |-> IF l = "Dialogue" THEN "#AED6F1"
                      ELSE IF l = "Math Problem" THEN "#A9DFBF"
                      ELSE "#FAD7A0"]

\* The markup the function emits: each tag is one element of the output
\* sequence, the escaped text is one element per character.
HeavyOpen == "<span style=\"text-decoration:underline;text-decoration-color:#cc0000;text-underline-offset:3px;\">"

AboveOpen == "<span style=\"background:rgba(255,140,0,0.38);border-radius:3px;padding:1px 2px;\">"

SpanClose == "</span>"

\* html.escape(c, quote=True) of one character
escape_char(c) ==
    IF c = "&" THEN <<"&","a","m","p",";">>
    ELSE IF c = "<" THEN <<"&","l","t",";">>
    ELSE IF c = ">" THEN <<"&","g","t",";">>
    ELSE IF c = "\"" THEN <<"&","q","u","o","t",";">>
    ELSE IF c = "'" THEN <<"&","#","x","2","7",";">>
    ELSE <<c>>

\* html.escape(tok)
escape(tok) == Concat([i \in 1..Len(tok) |-> escape_char(tok[i])])

RECURSIVE same_class_end(_, _)
\* the last index of the run of s that starts at i and stays whitespace, or
\* stays non-whitespace
same_class_end(s, i) ==
    IF i < Len(s) /\ ((s[i+1] \in Whitespace) <=> (s[i] \in Whitespace))
    THEN same_class_end(s, i + 1) ELSE i

RECURSIVE re_split_ws(_, _)
\* re.split(r"(\s+)", s) from index i on: the alternating whitespace and
\* non-whitespace runs (the empty strings it can yield, which render as
\* nothing, are left out)
re_split_ws(s, i) ==
    IF i > Len(s) THEN <<>>
    ELSE <<SubSeq(s, i, same_class_end(s, i))>>
         \o re_split_ws(s, same_class_end(s, i) + 1)

\* faulty variant: the span of a heavy word holds its letters only
render_token_letters_only(tok) ==
    IF alpha_only(tok) # <<>> /\ count_syllables(alpha_only(tok)) >= 3
    THEN <<HeavyOpen>> \o escape(alpha_only(tok)) \o <<SpanClose>>
    ELSE escape(tok)

\* one token of a sentence
render_token(tok) ==
    IF alpha_only(tok) # <<>> /\ count_syllables(alpha_only(tok)) >= 3
    THEN <<HeavyOpen>> \o escape(tok) \o <<SpanClose>>
    ELSE escape(tok)

\* one sentence: its tokens, wrapped when its grade exceeds the target
render_sentence(sentence, target) ==
    LET above_target == fk_grade(sentence).value > 10 * target
        tokens == re_split_ws(sentence, 1)
        sentence_content == Concat([i \in 1..Len(tokens) |-> render_token(tokens[i])])
    IN  IF above_target
        THEN <<AboveOpen>> \o sentence_content \o <<SpanClose>>
        ELSE sentence_content

\* body: the rendered sentences joined by one space
render_zone_body(zone_text, target) ==
    LET sentences == split_into_sentences(zone_text)
    IN  JoinSpace([i \in 1..Len(sentences) |-> render_sentence(sentences[i], target)])

render_zone_html(zone_text, zone_type, target) ==
    [bg    |-> ZONE_COLORS[zone_type],
     label |-> escape(<<zone_type>>),
     body  |-> render_zone_body(zone_text, target)]

----------------------------------------------------------------------------
(* zone_summary_row *)

\* \b before index p of s (p = Len(s) + 1: at the end)
word_boundary(s, p) ==
    LET before == p > 1 /\ IsWordChar(s[p-1])
        after  == p <= Len(s) /\ IsWordChar(s[p])
    IN  before # after

\* faulty variant: the pattern without its \b, every run of letters a word
findall_words_unbounded(s, i) == alpha_runs(s, i)

RECURSIVE findall_words(_, _)
\* re.findall(r"\b[a-zA-Z]+\b", s) from index i on: at a boundary, the run of
\* letters is taken greedily and given back letter by letter until a
\* boundary follows
findall_words(s, i) ==
    IF i > Len(s) THEN <<>>
    ELSE IF word_boundary(s, i) /\ IsAlpha(s[i])
         THEN LET ends == {k \in i..alpha_run_end(s, i) : word_boundary(s, k + 1)}
              IN  IF ends = {} THEN findall_words(s, i + 1)
                  ELSE LET k == CHOOSE e \in ends : \A f \in ends : f <= e
                       IN  <<SubSeq(s, i, k)>> \o findall_words(s, k + 1)
         ELSE findall_words(s, i + 1)

\* faulty variant: the two status texts exchanged
zone_summary_row_swapped(zone, target) ==
    LET words == findall_words(zone.text, 1)
        grade == fk_grade(zone.text).value
    IN  [ZoneType |-> zone.label,
         Words    |-> Len(words),
         Grade    |-> grade,
         Target   |-> target,
         Status   |-> IF grade <= 10 * target THEN "Above Target" ELSE "On Target"]

zone_summary_row(zone, target) ==
    LET words == findall_words(zone.text, 1)
        grade == fk_grade(zone.text).value
    IN  [ZoneType |-> zone.label,
         Words    |-> Len(words),
         Grade    |-> grade,
         Target   |-> target,
         Status   |-> IF grade <= 10 * target THEN "On Target" ELSE "Above Target"]

----------------------------------------------------------------------------
(* Bounds and inputs *)

\* longest text drawn from Alphabet
MaxLen == 3

\* Add Zone clicks explored (zone_key counts them)
MaxAdds == 3

\* lowest slider position
MinTarget == 1

\* highest slider position
MaxTarget == 8

\* largest count the dictionary gives a word
MaxDictSyl == 3

\* a vowel, a consonant, a capital, a sentence end, two kinds of white space,
\* a quote (a sentence start, and escaped in HTML), an ampersand (escaped),
\* a digit and an underscore (word characters that are no letters)
Alphabet == {"a", "b", "A", ".", " ", "\n", "\"", "&", "1", "_"}

\* the docstring's abbreviation case: "Dr. Smith calculated the answer. The cat sat."
Scenario1 ==
    <<"D","r","."," ","S","m","i","t","h"," ","c","a","l","c","u","l",
      "a","t","e","d"," ","t","h","e"," ","a","n","s","w","e","r",".",
      " ","T","h","e"," ","c","a","t"," ","s","a","t",".">>

\* "Dr. Smith calculated the answer."
Scenario1First ==
    <<"D","r","."," ","S","m","i","t","h"," ","c","a","l","c","u","l",
      "a","t","e","d"," ","t","h","e"," ","a","n","s","w","e","r",".">>

\* "The cat sat."
Scenario1Second ==
    <<"T","h","e"," ","c","a","t"," ","s","a","t",".">>

\* "The quick fox jumps."
Scenario4 ==
    <<"T","h","e"," ","q","u","i","c","k"," ","f","o","x"," ","j","u",
      "m","p","s",".">>

\* "abc123 x_y": letters next to digits and to an underscore
MixedRuns ==
    <<"a","b","c","1","2","3"," ","x","_","y">>

\* two sentences, special characters, a long word: Tom & "Al" calculated.  Why?
Quoted ==
    <<"T","o","m"," ","&"," ","\"","A","l","\""," ","c","a","l","c",
      "u","l","a","t","e","d","."," "," ","W","h","y","?">>

\* white space only
BlankInput ==
    <<" ","\n"," ">>

BoundedTexts == UNION {[1..n -> Alphabet] : n \in 0..MaxLen}

\* the arguments the text functions are called with
Texts == BoundedTexts \cup {Scenario1, Scenario4, MixedRuns, Quoted, BlankInput}

\* a passage as pasted, white space around it: grade 0.0
PaddedPassage ==
    <<" ","A"," ","c","a","t",".","\n">>

\* the same, trimmed
Passage ==
    <<"A"," ","c","a","t",".">>

\* a passage of grade 20.2, above every target
HardPassage ==
    <<"E","l","e","p","h","a","n","t","!">>

\* the words the dictionary may know
DictWords == {<<"a">>}

\* what the user may have in the zone text area when clicking Add Zone
ZoneInputs == {<<>>, BlankInput, PaddedPassage, HardPassage}

\* the dictionary that knows no word
NoDict == [w \in DictWords |-> 0]

\* the dictionaries: 0 stands for a word the dictionary does not know
Dicts == [DictWords -> 0..MaxDictSyl]

\* the slider positions explored: the two ends of the sliders' range
Targets == {MinTarget, MaxTarget}

NoAction == [op |-> "none", text |-> <<>>, idx |-> 0]

NoCall == [fn |-> "none", val |-> 0]

----------------------------------------------------------------------------
(* The session: one action per script run that a user action triggers *)

Init ==
    /\ zones = <<>>
    /\ zone_key = 0
    /\ TARGETS \in [Labels -> Targets]
    /\ warning = FALSE
    /\ dict = NoDict
    /\ last = NoAction
    /\ prev_zones = <<>>
    /\ text = <<>>
    /\ out = NoCall

\* faulty variant: the zone after the clicked one is removed
list_pop_next(zs, idx) == SubSeq(zs, 1, idx + 1) \o SubSeq(zs, idx + 3, Len(zs))

\* list.pop(idx), idx counted from 0
list_pop(zs, idx) == SubSeq(zs, 1, idx) \o SubSeq(zs, idx + 2, Len(zs))

\* faulty variant: the text is tested before it is trimmed
btn_add_untrimmed(zone_text_input, zone_type_sel) ==
    /\ zone_key < MaxAdds
    /\ IF zone_text_input # <<>>
       THEN /\ zones' = Append(zones, [text  |-> strip(zone_text_input),
                                       label |-> zone_type_sel])
            /\ zone_key' = zone_key + 1
            /\ warning' = FALSE
       ELSE /\ warning' = TRUE
            /\ UNCHANGED <<zones, zone_key>>
    /\ last' = [op |-> "add", text |-> zone_text_input, idx |-> 0]
    /\ prev_zones' = zones
    /\ UNCHANGED <<TARGETS, dict, text, out>>

\* faulty variant: a blank text is dropped without a warning
btn_add_silent(zone_text_input, zone_type_sel) ==
    /\ zone_key < MaxAdds
    /\ IF strip(zone_text_input) # <<>>
       THEN /\ zones' = Append(zones, [text  |-> strip(zone_text_input),
                                       label |-> zone_type_sel])
            /\ zone_key' = zone_key + 1
       ELSE UNCHANGED <<zones, zone_key>>
    /\ warning' = FALSE
    /\ last' = [op |-> "add", text |-> zone_text_input, idx |-> 0]
    /\ prev_zones' = zones
    /\ UNCHANGED <<TARGETS, dict, text, out>>

\* the Add Zone button
btn_add(zone_text_input, zone_type_sel) ==
    /\ zone_key < MaxAdds
    /\ IF strip(zone_text_input) # <<>>
       THEN /\ zones' = Append(zones, [text  |-> strip(zone_text_input),
                                       label |-> zone_type_sel])
            /\ zone_key' = zone_key + 1
            /\ warning' = FALSE
       ELSE /\ warning' = TRUE
            /\ UNCHANGED <<zones, zone_key>>
    /\ last' = [op |-> "add", text |-> zone_text_input, idx |-> 0]
    /\ prev_zones' = zones
    /\ UNCHANGED <<TARGETS, dict, text, out>>

\* the Clear All Zones button
btn_clear ==
    /\ zones' = <<>>
    /\ warning' = FALSE
    /\ last' = [op |-> "clear", text |-> <<>>, idx |-> 0]
    /\ prev_zones' = zones
    /\ UNCHANGED <<zone_key, TARGETS, dict, text, out>>

\* the remove button of the zone rendered at position idx
btn_del(idx) ==
    /\ idx \in 0..(Len(zones) - 1)
    /\ zones' = list_pop(zones, idx)
    /\ warning' = FALSE
    /\ last' = [op |-> "del", text |-> <<>>, idx |-> idx]
    /\ prev_zones' = zones
    /\ UNCHANGED <<zone_key, TARGETS, dict, text, out>>

\* moving one sidebar slider
slider(label, value) ==
    /\ TARGETS[label] # value
    /\ TARGETS' = [TARGETS EXCEPT ![label] = value]
    /\ warning' = FALSE
    /\ last' = [op |-> "slider", text |-> <<>>, idx |-> 0]
    /\ prev_zones' = zones
    /\ UNCHANGED <<zones, zone_key, dict, text, out>>

\* the summary table of a script run
rows == [i \in 1..Len(zones) |-> zone_summary_row(zones[i], TARGETS[zones[i].label])]

\* the zone blocks of a script run
blocks ==
    [i \in 1..Len(zones) |->
        render_zone_html(zones[i].text, zones[i].label, TARGETS[zones[i].label])]

AddZone == \E t \in ZoneInputs, l \in Labels : btn_add(t, l)

ClearAllZones == btn_clear

RemoveZone == \E idx \in 0..(MaxAdds - 1) : btn_del(idx)

MoveSlider == \E l \in Labels, v \in Targets : slider(l, v)

Next == AddZone \/ ClearAllZones \/ RemoveZone \/ MoveSlider

Spec == Init /\ [][Next]_vars

----------------------------------------------------------------------------
(* The text functions called directly, on every text of Texts *)

InitText ==
    /\ zones = <<>>
    /\ zone_key = 0
    /\ TARGETS = [l \in Labels |-> MinTarget]
    /\ warning = FALSE
    /\ dict \in Dicts
    /\ last = NoAction
    /\ prev_zones = <<>>
    /\ text \in Texts
    /\ out = NoCall

Call(fn, val) ==
    /\ out = NoCall
    /\ out' = [fn |-> fn, val |-> val]
    /\ UNCHANGED <<zones, zone_key, TARGETS, warning, dict, last, prev_zones, text>>

CallCountSyllables == Call("count_syllables", count_syllables(text))

CallSplitIntoSentences == Call("split_into_sentences", split_into_sentences(text))

CallFkGrade == Call("fk_grade", fk_grade(text))

CallRenderZoneHtml ==
    \E l \in Labels, t \in Targets : Call("render_zone_html", render_zone_html(text, l, t))

CallZoneSummaryRow ==
    \E l \in Labels, t \in Targets :
        Call("zone_summary_row", zone_summary_row([text |-> text, label |-> l], t))

NextText ==
    \/ CallCountSyllables
    \/ CallSplitIntoSentences
    \/ CallFkGrade
    \/ CallRenderZoneHtml
    \/ CallZoneSummaryRow

SpecText == InitText /\ [][NextText]_vars

----------------------------------------------------------------------------
(* Properties of the session (checked under Spec) *)

\* C1: every zone in the registry has a text that is not empty after
\* trimming and a zone type that is one of the three.
C1_ZonesWellFormed ==
    \A i \in 1..Len(zones) :
        /\ strip(zones[i].text) # <<>>
        /\ zones[i].label \in Labels

\* a padded passage was added, after an earlier zone, and stored trimmed
C1_Witness ==
    /\ last.op = "add"
    /\ last.text = PaddedPassage
    /\ Len(zones) >= 2
    /\ zones[Len(zones)].text = Passage

\* C2: removing the zone at position idx leaves one zone fewer: those before
\* it stay where they were, those after it move up by one, each unchanged.
C2_RemoveKeepsOthers ==
    last.op = "del" =>
        /\ Len(zones) = Len(prev_zones) - 1
        /\ \A j \in 1..Len(zones) :
              zones[j] = prev_zones[IF j <= last.idx THEN j ELSE j + 1]

\* the middle one of three zones was removed, the outer two differing
C2_Witness ==
    /\ last.op = "del"
    /\ last.idx = 1
    /\ Len(prev_zones) = 3
    /\ prev_zones[1] # prev_zones[3]
    /\ prev_zones[2] # prev_zones[3]

\* C3: Add Zone with an empty or white-space-only text creates no zone, leaves
\* the registry exactly as it was, and shows the warning.
C3_BlankAddRejected ==
    (last.op = "add" /\ strip(last.text) = <<>>) =>
        (zones = prev_zones /\ warning)

\* a white-space-only text was submitted while the registry held zones
C3_Witness ==
    /\ last.op = "add"
    /\ last.text = BlankInput
    /\ Len(zones) >= 1
    /\ warning

\* C6: the summary has one row per zone, in registry order, and a row's status
\* is On Target exactly when its grade is at most the target of the zone's
\* type, Above Target exactly when it is greater.
C6_SummaryStatus ==
    /\ Len(rows) = Len(zones)
    /\ \A i \in 1..Len(zones) :
          LET target == TARGETS[zones[i].label]
              row    == rows[i]
          IN  /\ row.ZoneType = zones[i].label
              /\ row.Grade = fk_grade(zones[i].text).value
              /\ row.Target = target
              /\ row.Status \in {"On Target", "Above Target"}
              /\ row.Status = "On Target" <=> row.Grade <= 10 * target
              /\ row.Status = "Above Target" <=> row.Grade > 10 * target

\* a grade of 0.0 against target 1 is On Target, beside a zone Above Target
C6_Witness ==
    /\ Len(zones) = 2
    /\ LET first == rows[1]
       IN  first.Grade = 0 /\ first.Target = 1 /\ first.Status = "On Target"
    /\ rows[2].Status = "Above Target"

----------------------------------------------------------------------------
(* Properties of the text functions (checked under SpecText) *)

HasAlpha(t) == \E i \in 1..Len(t) : t[i] \in Letters

\* C4: count_syllables gives at least 1 for a token with a letter in it, and
\* 0 exactly for a token with none.
C4_SyllablesAtLeastOne ==
    out.fn = "count_syllables" =>
        /\ HasAlpha(text) => out.val >= 1
        /\ out.val = 0 <=> ~HasAlpha(text)

\* a token with letters and no vowel, unknown to the dictionary: the fallback
\* counts no vowel group and the result is 1
C4_Witness ==
    /\ out.fn = "count_syllables"
    /\ HasAlpha(text)
    /\ syllapy_count(lower(alpha_only(text))) = 0
    /\ vowel_groups(lower(alpha_only(text))) = 0
    /\ out.val = 1

\* C5: fk_grade returns, never raises, and the grade is at least 0.0; it is
\* 0.0 when the formula fails or gives a negative value.
C5_GradeNonNegative ==
    out.fn = "fk_grade" =>
        /\ ~out.val.raised
        /\ out.val.value >= 0
        /\ LET r == textstat_flesch_kincaid_grade(text)
           IN  (r.raised \/ r.value.num < 0) => out.val.value = 0

\* "The quick fox jumps.": the formula gives -2.23, the grade is 0.0
C5_Witness ==
    /\ out.fn = "fk_grade"
    /\ text = Scenario4
    /\ ~textstat_flesch_kincaid_grade(text).raised
    /\ round1(textstat_flesch_kincaid_grade(text).value) = -22
    /\ out.val.value = 0

\* C7: "Dr. Smith calculated the answer. The cat sat." is split into exactly
\* the two sentences "Dr. Smith calculated the answer." and "The cat sat.".
C7_AbbreviationNotSplit ==
    (out.fn = "split_into_sentences" /\ text = Scenario1) =>
        out.val = <<Scenario1First, Scenario1Second>>

IsMarkup(x) == x \in {HeavyOpen, AboveOpen, SpanClose}

NotMarkup(x) == ~IsMarkup(x)

\* the body without its highlight spans
strip_markup(body) == SelectSeq(body, NotMarkup)

\* whether s continues with the characters of e from index i on
StartsWithAt(s, i, e) ==
    /\ i + Len(e) - 1 <= Len(s)
    /\ SubSeq(s, i, i + Len(e) - 1) = e

\* the characters html.escape replaces
Escaped == {"&", "<", ">", "\"", "'"}

RECURSIVE unescape(_, _)
\* the character references of html.escape decoded, from index i on
unescape(s, i) ==
    IF i > Len(s) THEN <<>>
    ELSE IF \E c \in Escaped : StartsWithAt(s, i, escape_char(c))
         THEN LET c == CHOOSE d \in Escaped : StartsWithAt(s, i, escape_char(d))
              IN  <<c>> \o unescape(s, i + Len(escape_char(c)))
         ELSE <<s[i]>> \o unescape(s, i + 1)

\* C8 as stated: the body without its highlight spans is the text of the
\* zone, its sentences joined by single spaces.
C8_RoundTripVerbatim ==
    out.fn = "render_zone_html" =>
        strip_markup(out.val.body) = JoinSpace(split_into_sentences(text))

\* C8 amended: the body without its highlight spans, with the character
\* references of html.escape decoded, is the text of the zone, its sentences
\* joined by single spaces.
C8_RoundTripDecoded ==
    out.fn = "render_zone_html" =>
        unescape(strip_markup(out.val.body), 1) = JoinSpace(split_into_sentences(text))

\* two sentences, a heavy word, a sentence above target, escaped characters
C8_Witness ==
    /\ out.fn = "render_zone_html"
    /\ text = Quoted
    /\ Len(split_into_sentences(text)) = 2
    /\ HeavyOpen \in Range(out.val.body)
    /\ AboveOpen \in Range(out.val.body)
    /\ StartsWithAt(strip_markup(out.val.body), 5, escape_char("&"))

\* C9: joining the sentences of a text with single spaces and splitting
\* again gives as many sentences.
C9_SplitStable ==
    out.fn = "split_into_sentences" =>
        Len(split_into_sentences(JoinSpace(out.val))) = Len(out.val)

\* two sentences that were separated by more than one white-space character
C9_Witness ==
    /\ out.fn = "split_into_sentences"
    /\ text = Quoted
    /\ Len(out.val) = 2
    /\ JoinSpace(out.val) # text

\* C10 as stated: the row's word count is the number of maximal runs of
\* letters of the text.
C10_WordsAreLetterRuns ==
    out.fn = "zone_summary_row" => out.val.Words = Len(alpha_runs(text, 1))

\* the indices where a maximal run of letters starts that has no letter,
\* digit or underscore directly before or after it
IsolatedRunStarts(t) ==
    {i \in 1..Len(t) :
        /\ IsAlpha(t[i])
        /\ i = 1 \/ ~IsWordChar(t[i-1])
        /\ LET j == alpha_run_end(t, i)
           IN  j = Len(t) \/ ~IsWordChar(t[j+1])}

\* C10 amended: the row's word count is the number of maximal runs of letters
\* that have no digit or underscore directly before or after them.
C10_WordsAreIsolatedRuns ==
    out.fn = "zone_summary_row" =>
        out.val.Words = Cardinality(IsolatedRunStarts(text))

\* "abc123 x_y": three runs of letters, none of them counted
C10_Witness ==
    /\ out.fn = "zone_summary_row"
    /\ text = MixedRuns
    /\ Len(alpha_runs(text, 1)) = 3
    /\ out.val.Words = 0

====
